---- MODULE Spec2Model ----
(***************************************************************************)
(* Document router of the trigger-upload Lambda                            *)
(* (src/lambdas/trigger-upload/index.py).                                  *)
(*                                                                         *)
(* lambda_handler walks the SQS records of an event and the S3 records of  *)
(* each of them; every S3 record is one document, handed to                *)
(* process_legal_document, which reads the document-type metadata and      *)
(* takes the QR path (decode + save) or the VietOCR path (OCR + Bedrock QA *)
(* + save).  Every boto3 call is a blocking round trip and is one step of  *)
(* the model; what the collaborator answers (or that the call raises) is   *)
(* chosen by the environment.                                              *)
(*                                                                         *)
(* A document is identified by its ordinal in processing order; the        *)
(* bucket/key strings and the URL-decoding of the key (lines 147-155) are  *)
(* not modelled, and events are well-formed S3 notifications.              *)
(*                                                                         *)
(* OCR server (src/backend/vietocr-server.py): the two model singletons    *)
(* under concurrent requests (SpecSingleton), the mapping of one polygon   *)
(* to a crop (SpecGeom), and one request to /ocr from its JSON to its      *)
(* response (SpecOcr).  Each specification keeps the variables of the      *)
(* others at their idle values.                                            *)
(***************************************************************************)
EXTENDS Integers, Sequences, FiniteSets, TLC

\* Bounds of the model: SQS records per event, S3 records per SQS record.
MaxRecords == 2
MaxS3Records == 2
\* Bound of the model: request threads of the OCR server.
NumThreads == 3
Threads == 1..NumThreads

VARIABLES
    event,            \* event['Records']: per SQS record, its number of S3 records
    ri,               \* index of the SQS record the outer loop is at (0 = before the first)
    si,               \* index of the S3 record the inner loop is at
    doc,              \* ordinal, in processing order, of the current document (0 = none yet)
    pc,               \* position of the handler / of process_legal_document
    doc_type,         \* local of process_legal_document
    qr_result,        \* local of process_legal_document
    decoded_result,   \* local of process_legal_document
    ocr_result,       \* local of process_legal_document
    qa_result,        \* local of process_legal_document
    calls,            \* the collaborator calls made for the current document, in order
    outcome,          \* per document: Received, Persisted, NotApplicable or Failed
    error,            \* str(e) of the exception that ended the batch ("" = none)
    response,         \* what lambda_handler returned (statusCode 0 = not yet)
    handed            \* per document: calls of process_with_existing_bedrock for it

\* The model singletons of the OCR server (src/backend/vietocr-server.py) and
\* the request threads that use them.
VARIABLES
    detector,         \* global detector: 0 = None, k = the k-th PaddleOCR instance built
    predictor,        \* global predictor: 0 = None, k = the k-th Predictor instance built
    constructed,      \* per singleton: how many times its constructor has run
    tpc,              \* per request thread: its position in ocr(), lines 218-219
    tdet,             \* per request thread: det, what init_detector() returned (0 = not yet)
    tpred             \* per request thread: rec, what init_predictor() returned (0 = not yet)

\* One polygon of the detector output on its way through the region loop of
\* ocr() (src/backend/vietocr-server.py, lines 301-371).
VARIABLES
    gpc,              \* position in the loop body: start, mapped, skipped, cropped, predicted
    views,            \* det_W, det_H, rec_W, rec_H (lines 301-302)
    poly,             \* the polygon: a sequence of points
    region,           \* x1, y1, x2, y2 (lines 343-346)
    crop              \* width and height of crop (lines 354-363)

\* One request to /ocr of the OCR server (src/backend/vietocr-server.py,
\* lines 167-450).  An image is its size; a text is a sequence of characters.
VARIABLES
    opc,              \* position of ocr()
    request,          \* the request: what it carries and, for an image, its size
    image,            \* size of the image object loaded at line 189
    detection_img,    \* size of detection_img, whether it is the object image, whether enhanced
    processed_img,    \* size of processed_img, whether it is the object image, whether enhanced
    det_result,       \* result: what det.ocr(...) returned, or that it raised (line 248)
    boxes_pages,      \* boxes_pages: None, or the page of boxes kept (lines 239-270)
    idx,              \* 1 + idx of the region loop (line 319)
    lines,            \* lines (line 298)
    predicts,         \* the calls of rec.predict made, in order, with what they returned
    ocr_response      \* what ocr() returned (status 0 = not yet)

\* The model singletons in sequential use: the globals of the OCR server
\* above, _model of the vietocr-processor Lambda
\* (src/lambdas/vietocr-processor/index.py, lines 28-38), and what the calls
\* made so far returned.
VARIABLES
    model,            \* global _model: 0 = None, k = the k-th Predictor instance built
    model_constructed, \* how many times Predictor(config) has run in the Lambda
    uses              \* the calls of init_detector, init_predictor, _get_model and /health, in order

routerVars == <<event, ri, si, doc, pc, doc_type, qr_result, decoded_result,
                ocr_result, qa_result, calls, outcome, error, response, handed>>
singVars == <<detector, predictor, constructed, tpc, tdet, tpred>>
geomVars == <<gpc, views, poly, region, crop>>
ocrVars == <<opc, request, image, detection_img, processed_img, det_result,
             boxes_pages, idx, lines, predicts, ocr_response>>

seqVars == <<model, model_constructed, uses>>

vars == <<routerVars, singVars, geomVars, ocrVars, seqVars>>

\* What the router leaves alone.
nonRouter == <<singVars, geomVars, ocrVars, seqVars>>

locals == <<doc_type, qr_result, decoded_result, ocr_result, qa_result>>
loop == <<event, ri, si, doc>>

-----------------------------------------------------------------------------
(* Values *)

\* Python's None for the dict-valued locals, and a call that carries no result.
NoneDict == [none |-> TRUE]

\* FunctionName of each lambda_client.invoke (the os.environ key it is read from).
QR_DETECTOR_FN == "QR_DETECTOR_FN_ARN"
QR_DECODER_FN == "QR_DECODER_FN_ARN"
VIETOCR_FN == "VIETOCR_FN_ARN"
BEDROCK_QA_FN == "BEDROCK_QA_FN_ARN"
RESULT_SAVER_FN == "RESULT_SAVER_FN_ARN"
HEAD_OBJECT == "s3.head_object"

\* The message of the exception raised at line 75, and the messages the model
\* gives to a boto3 call that raises and to a response that is not a JSON object.
NoTextMessage == "VietOCR returned no text"
ClientErrorMessage == "ClientError"
AttributeErrorMessage == "object has no attribute 'get'"

\* str.lower() on the document-type values the model draws.
Lower(s) ==
    CASE s = "Legal Registration" -> "legal registration"
      [] s = "LEGAL REGISTRATION" -> "legal registration"
      [] s = "Legal Registration Form" -> "legal registration form"
      [] s = "Mortgage" -> "mortgage"
      [] OTHER -> s

\* json.loads on the body strings the model draws.  A body that is valid JSON
\* but no object ("[]") yields a value without .get: NotADict.
NotADict == [notadict |-> TRUE]

JsonLoads(s) ==
    CASE s = "{\"hasQR\": true, \"decodedText\": \"QR1\"}" -> [hasQR |-> TRUE, decodedText |-> "QR1"]
      [] s = "{\"hasQR\": true, \"decodedText\": \"\"}" -> [hasQR |-> TRUE, decodedText |-> ""]
      [] s = "{\"hasQR\": false}" -> [hasQR |-> FALSE]
      [] s = "{\"error\": \"Missing bucket/key\"}" -> [error |-> "Missing bucket/key"]
      [] s = "{\"text\": \"TEXT1\"}" -> [text |-> "TEXT1"]
      [] s = "{\"text\": \"\"}" -> [text |-> ""]
      [] s = "{\"fields\": \"DEC1\"}" -> [fields |-> "DEC1"]
      [] s = "{\"answers\": \"QA1\"}" -> [answers |-> "QA1"]
      [] OTHER -> NotADict

\* What a boto3 call can do: raise, or return a payload.  A payload is the
\* value of json.loads(response['Payload'].read()): the {statusCode, body}
\* envelope a handler returns, or a bare dict (Lambda's own error document for
\* a function that threw, or a handler that returns its result unwrapped).
Raised == [raised |-> TRUE]

Envelope(code, body) == [statusCode |-> code, body |-> body]

FunctionError == [errorMessage |-> "Task timed out"]

\* head_object: the Metadata mapping of the stored object.
Metadatas ==
    { [document_type |-> t] : t \in {"legal registration", "Legal Registration",
                                     "LEGAL REGISTRATION", "Legal Registration Form",
                                     "Mortgage"} }
    \cup { [uploaded_by |-> "u1"] }

\* qr-detector/app.py handler: lines 58, 66-73, 74; plus a function error and
\* answers the detector itself never gives but the router accepts.
QrDetectorPayloads ==
    { Envelope(200, "{\"hasQR\": true, \"decodedText\": \"QR1\"}"),
      Envelope(200, "{\"hasQR\": false}"),
      Envelope(200, "{\"hasQR\": true, \"decodedText\": \"\"}"),
      Envelope(400, "{\"error\": \"Missing bucket/key\"}"),
      Envelope(200, "[]"),
      [hasQR |-> TRUE, decodedText |-> "QR1"],
      FunctionError }

QrDecoderPayloads ==
    { Envelope(200, "{\"fields\": \"DEC1\"}"), [fields |-> "DEC1"], FunctionError }

\* vietocr-processor/index.py handler: lines 46, 60-65.
VietOcrPayloads ==
    { Envelope(200, "{\"text\": \"TEXT1\"}"),
      Envelope(200, "{\"text\": \"\"}"),
      Envelope(400, "{\"error\": \"Missing bucket/key\"}"),
      Envelope(200, "[]"),
      [text |-> "TEXT1"],
      FunctionError }

BedrockQaPayloads ==
    { Envelope(200, "{\"answers\": \"QA1\"}"), [answers |-> "QA1"], FunctionError }

-----------------------------------------------------------------------------
(* Helpers of process_legal_document *)

\* json.loads(p.get('body', '{}')) if isinstance(p.get('body'), str) else p
Unwrap(p) == IF "body" \in DOMAIN p THEN JsonLoads(p.body) ELSE p

\* head.get('Metadata', {}).get('document-type', '').lower()
DocType(metadata) ==
    IF "document_type" \in DOMAIN metadata THEN Lower(metadata.document_type) ELSE ""

\* Line 22, negated: the document is taken into the legal pipeline.
IsLegalRegistrationPrefix(t) == t \in {"legal registration", "legal registration form"}
IsLegalRegistration(t) == t = "legal registration"

\* Line 37 with the test of 'hasQR' alone.
QrPathTakenOnHasQr(r) == "hasQR" \in DOMAIN r /\ r.hasQR
\* Line 37: qr_result.get('hasQR') and qr_result.get('decodedText')
QrPathTaken(r) ==
    /\ "hasQR" \in DOMAIN r /\ r.hasQR
    /\ "decodedText" \in DOMAIN r /\ r.decodedText # ""

\* Line 74: not ocr_result.get('text')
NoTextKeyOnly(r) == "text" \notin DOMAIN r
NoText(r) == "text" \notin DOMAIN r \/ r.text = ""

\* A call that raised has no payload; an 'Event' invocation is only accepted.
IsRaised(r) == "raised" \in DOMAIN r
Accepted == [statusCode |-> 202]

\* One collaborator call as the router makes it: the function, the
\* InvocationType, the request ({bucket, key} is the document's ordinal; text
\* is 'decodedText' or 'text'; result is 'result') and what came back.
Call(fn, type, text, result, resp) ==
    [fn |-> fn, type |-> type, key |-> doc, text |-> text, result |-> result,
     resp |-> resp]

\* Payload of the decoder call (line 43), of the QA call (line 82) and the
\* 'result' of the two saver calls (lines 56 and 95).
DecoderText(r) == r.decodedText
QaText(r) == r.text
QrSaveResultIsDetector(qr, decoded) == qr
QrSaveResult(qr, decoded) == decoded
QaSaveResultIsOcr(ocr, qa) == ocr
QaSaveResult(ocr, qa) == qa

-----------------------------------------------------------------------------
(* Documents of an event *)

RECURSIVE SumTo(_, _)
SumTo(ev, n) == IF n = 0 THEN 0 ELSE ev[n] + SumTo(ev, n - 1)

\* Number of documents (S3 records) of the whole event.
NumDocs(ev) == SumTo(ev, Len(ev))

Events == UNION { [1..n -> 0..MaxS3Records] : n \in 0..MaxRecords }

\* No request thread has started and no model has been built.
SingletonIdle ==
    /\ detector = 0
    /\ predictor = 0
    /\ constructed = [detector |-> 0, predictor |-> 0]
    /\ tpc = [t \in Threads |-> "idle"]
    /\ tdet = [t \in Threads |-> 0]
    /\ tpred = [t \in Threads |-> 0]

\* No polygon is in the region loop.
NoViews == [det_W |-> 0, det_H |-> 0, rec_W |-> 0, rec_H |-> 0]
NoRegion == [x1 |-> 0, y1 |-> 0, x2 |-> 0, y2 |-> 0]
NoCrop == [width |-> 0, height |-> 0]
GeomIdle ==
    /\ gpc = "idle"
    /\ views = NoViews
    /\ poly = <<>>
    /\ region = NoRegion
    /\ crop = NoCrop

\* No request to /ocr is being served.
NoImage == [width |-> 0, height |-> 0]
NoView == [width |-> 0, height |-> 0, same |-> FALSE, enhanced |-> FALSE]
NoRequest == [kind |-> "none", size |-> NoImage]
NoResult == [kind |-> "not_called", page |-> <<>>]
NoBoxes == [none |-> TRUE, page |-> <<>>]
NoResponse == [status |-> 0]
OcrIdle ==
    /\ opc = "idle"
    /\ request = NoRequest
    /\ image = NoImage
    /\ detection_img = NoView
    /\ processed_img = NoView
    /\ det_result = NoResult
    /\ boxes_pages = NoBoxes
    /\ idx = 0
    /\ lines = <<>>
    /\ predicts = <<>>
    /\ ocr_response = NoResponse

\* No singleton of the Lambda is built and no call is on record.
SeqIdle ==
    /\ model = 0
    /\ model_constructed = 0
    /\ uses = <<>>

Init ==
    /\ event \in Events
    /\ ri = 0
    /\ si = 0
    /\ doc = 0
    /\ pc = "for_record"
    /\ doc_type = ""
    /\ qr_result = NoneDict
    /\ decoded_result = NoneDict
    /\ ocr_result = NoneDict
    /\ qa_result = NoneDict
    /\ calls = <<>>
    /\ outcome = [d \in 1..NumDocs(event) |-> "Received"]
    /\ error = ""
    /\ response = [statusCode |-> 0, body |-> ""]
    /\ handed = [d \in 1..NumDocs(event) |-> 0]
    /\ SingletonIdle
    /\ GeomIdle
    /\ OcrIdle
    /\ SeqIdle

-----------------------------------------------------------------------------
(* How process_legal_document ends *)

\* An exception inside process_legal_document: logged and re-raised (lines
\* 102-104), it leaves the two loops of lambda_handler and is caught by the
\* handler's own except (lines 175-180), which returns statusCode 500.
RaiseRetries(cs, msg) ==
    /\ calls' = cs
    /\ UNCHANGED <<pc, outcome, error, response>>
RaiseSavesPartial(cs, msg) ==
    /\ calls' = Append(cs, Call(RESULT_SAVER_FN, "Event", "", NoneDict, Accepted))
    /\ outcome' = [outcome EXCEPT ![doc] = "Failed"]
    /\ error' = msg
    /\ response' = [statusCode |-> 500, body |-> msg]
    /\ pc' = "returned"
Raise(cs, msg) ==
    /\ calls' = cs
    /\ outcome' = [outcome EXCEPT ![doc] = "Failed"]
    /\ error' = msg
    /\ response' = [statusCode |-> 500, body |-> msg]
    /\ pc' = "returned"

\* return True (lines 61 and 100); the handler logs and continues (162-164).
ReturnTrueNoContinue(cs) ==
    /\ calls' = cs
    /\ outcome' = [outcome EXCEPT ![doc] = "Persisted"]
    /\ pc' = "existing_bedrock"
    /\ UNCHANGED <<error, response>>
ReturnTrue(cs) ==
    /\ calls' = cs
    /\ outcome' = [outcome EXCEPT ![doc] = "Persisted"]
    /\ pc' = "for_s3_record"
    /\ UNCHANGED <<error, response>>

\* The end of the QR branch, lines 60-61.
QrPathFallsThrough(cs) ==
    /\ calls' = cs
    /\ pc' = "invoke_vietocr"
    /\ UNCHANGED <<outcome, error, response>>
QrPathReturn(cs) == ReturnTrue(cs)

\* The next statement of process_legal_document, the document still open.
Goto(cs, next) ==
    /\ calls' = cs
    /\ pc' = next
    /\ UNCHANGED <<outcome, error, response>>

-----------------------------------------------------------------------------
(* lambda_handler: the two loops *)

\* for record in event.get('Records', []) -- one more SQS record (133-144).
NextRecord ==
    /\ pc = "for_record"
    /\ ri < Len(event)
    /\ ri' = ri + 1
    /\ si' = 0
    /\ pc' = IF event[ri + 1] = 0 THEN "for_record" ELSE "for_s3_record"
    /\ UNCHANGED <<event, doc, locals, calls, outcome, error, response>>
    /\ UNCHANGED <<handed, nonRouter>>

\* The outer loop is exhausted: return statusCode 200 (170-173).
ReturnCompleted ==
    /\ pc = "for_record"
    /\ ri = Len(event)
    /\ response' = [statusCode |-> 200, body |-> "Processing completed"]
    /\ pc' = "returned"
    /\ UNCHANGED <<loop, locals, calls, outcome, error>>
    /\ UNCHANGED <<handed, nonRouter>>

\* for s3_record in s3_records -- one more document; process_legal_document is
\* entered with fresh locals (146-160).
NextS3Record ==
    /\ pc = "for_s3_record"
    /\ si < event[ri]
    /\ si' = si + 1
    /\ doc' = doc + 1
    /\ doc_type' = ""
    /\ qr_result' = NoneDict
    /\ decoded_result' = NoneDict
    /\ ocr_result' = NoneDict
    /\ qa_result' = NoneDict
    /\ calls' = <<>>
    /\ pc' = "head_object"
    /\ UNCHANGED <<event, ri, outcome, error, response>>
    /\ UNCHANGED <<handed, nonRouter>>

\* The inner loop is exhausted: back to the outer loop.
S3RecordsDone ==
    /\ pc = "for_s3_record"
    /\ si = event[ri]
    /\ pc' = "for_record"
    /\ UNCHANGED <<loop, locals, calls, outcome, error, response>>
    /\ UNCHANGED <<handed, nonRouter>>

\* process_with_existing_bedrock (107-121), reached when process_legal_document
\* returned False (162-168).
ProcessWithExistingBedrock ==
    /\ pc = "existing_bedrock"
    /\ outcome' = [outcome EXCEPT ![doc] = "NotApplicable"]
    /\ pc' = "for_s3_record"
    /\ UNCHANGED <<loop, locals, calls, error, response>>
    /\ handed' = [handed EXCEPT ![doc] = @ + 1]
    /\ UNCHANGED nonRouter

-----------------------------------------------------------------------------
(* process_legal_document: one action per collaborator round trip *)

\* Lines 19-23.
HeadObject ==
    /\ pc = "head_object"
    /\ \E r \in {Raised} \cup Metadatas :
         LET cs == Append(calls, Call(HEAD_OBJECT, "RequestResponse", "", NoneDict, r))
         IN  IF IsRaised(r)
             THEN Raise(cs, ClientErrorMessage) /\ UNCHANGED locals
             ELSE /\ doc_type' = DocType(r)
                  /\ Goto(cs, IF IsLegalRegistration(DocType(r))
                              THEN "invoke_qr_detector" ELSE "existing_bedrock")
                  /\ UNCHANGED <<qr_result, decoded_result, ocr_result, qa_result>>
    /\ UNCHANGED loop
    /\ UNCHANGED <<handed, nonRouter>>

\* Lines 28-37.
InvokeQrDetector ==
    /\ pc = "invoke_qr_detector"
    /\ \E r \in {Raised} \cup QrDetectorPayloads :
         LET cs == Append(calls, Call(QR_DETECTOR_FN, "RequestResponse", "", NoneDict, r))
         IN  IF IsRaised(r)
             THEN Raise(cs, ClientErrorMessage) /\ UNCHANGED locals
             ELSE /\ qr_result' = Unwrap(r)
                  /\ IF Unwrap(r) = NotADict
                     THEN Raise(cs, AttributeErrorMessage)
                     ELSE Goto(cs, IF QrPathTaken(Unwrap(r))
                                   THEN "invoke_qr_decoder" ELSE "invoke_vietocr")
                  /\ UNCHANGED <<doc_type, decoded_result, ocr_result, qa_result>>
    /\ UNCHANGED loop
    /\ UNCHANGED <<handed, nonRouter>>

\* Lines 40-47.
InvokeQrDecoder ==
    /\ pc = "invoke_qr_decoder"
    /\ \E r \in {Raised} \cup QrDecoderPayloads :
         LET cs == Append(calls, Call(QR_DECODER_FN, "RequestResponse",
                                      DecoderText(qr_result), NoneDict, r))
         IN  IF IsRaised(r)
             THEN Raise(cs, ClientErrorMessage) /\ UNCHANGED locals
             ELSE /\ decoded_result' = Unwrap(r)
                  /\ Goto(cs, "invoke_saver_qr")
                  /\ UNCHANGED <<doc_type, qr_result, ocr_result, qa_result>>
    /\ UNCHANGED loop
    /\ UNCHANGED <<handed, nonRouter>>

\* Lines 50-61: InvocationType 'Event', the response is not read.
InvokeResultSaverQr ==
    /\ pc = "invoke_saver_qr"
    /\ \E r \in {Raised, Accepted} :
         LET cs == Append(calls, Call(RESULT_SAVER_FN, "Event", "",
                                      QrSaveResult(qr_result, decoded_result), r))
         IN  IF IsRaised(r)
             THEN Raise(cs, ClientErrorMessage)
             ELSE QrPathReturn(cs)
    /\ UNCHANGED <<loop, locals>>
    /\ UNCHANGED <<handed, nonRouter>>

\* Lines 65-75.
InvokeVietOcr ==
    /\ pc = "invoke_vietocr"
    /\ \E r \in {Raised} \cup VietOcrPayloads :
         LET cs == Append(calls, Call(VIETOCR_FN, "RequestResponse", "", NoneDict, r))
         IN  IF IsRaised(r)
             THEN Raise(cs, ClientErrorMessage) /\ UNCHANGED locals
             ELSE /\ ocr_result' = Unwrap(r)
                  /\ IF Unwrap(r) = NotADict
                     THEN Raise(cs, AttributeErrorMessage)
                     ELSE IF NoText(Unwrap(r))
                          THEN Raise(cs, NoTextMessage)
                          ELSE Goto(cs, "invoke_bedrock_qa")
                  /\ UNCHANGED <<doc_type, qr_result, decoded_result, qa_result>>
    /\ UNCHANGED loop
    /\ UNCHANGED <<handed, nonRouter>>

\* Lines 79-86.
InvokeBedrockQa ==
    /\ pc = "invoke_bedrock_qa"
    /\ \E r \in {Raised} \cup BedrockQaPayloads :
         LET cs == Append(calls, Call(BEDROCK_QA_FN, "RequestResponse",
                                      QaText(ocr_result), NoneDict, r))
         IN  IF IsRaised(r)
             THEN Raise(cs, ClientErrorMessage) /\ UNCHANGED locals
             ELSE /\ qa_result' = Unwrap(r)
                  /\ Goto(cs, "invoke_saver_qa")
                  /\ UNCHANGED <<doc_type, qr_result, decoded_result, ocr_result>>
    /\ UNCHANGED loop
    /\ UNCHANGED <<handed, nonRouter>>

\* Lines 89-100: InvocationType 'Event', the response is not read.
InvokeResultSaverQa ==
    /\ pc = "invoke_saver_qa"
    /\ \E r \in {Raised, Accepted} :
         LET cs == Append(calls, Call(RESULT_SAVER_FN, "Event", "",
                                      QaSaveResult(ocr_result, qa_result), r))
         IN  IF IsRaised(r)
             THEN Raise(cs, ClientErrorMessage)
             ELSE ReturnTrue(cs)
    /\ UNCHANGED <<loop, locals>>
    /\ UNCHANGED <<handed, nonRouter>>

Next ==
    \/ NextRecord
    \/ ReturnCompleted
    \/ NextS3Record
    \/ S3RecordsDone
    \/ ProcessWithExistingBedrock
    \/ HeadObject
    \/ InvokeQrDetector
    \/ InvokeQrDecoder
    \/ InvokeResultSaverQr
    \/ InvokeVietOcr
    \/ InvokeBedrockQa
    \/ InvokeResultSaverQa

Spec == Init /\ [][Next]_vars

TypeOK ==
    /\ pc \in {"for_record", "for_s3_record", "head_object", "existing_bedrock",
               "invoke_qr_detector", "invoke_qr_decoder", "invoke_saver_qr",
               "invoke_vietocr", "invoke_bedrock_qa", "invoke_saver_qa", "returned"}
    /\ ri \in 0..Len(event)
    /\ doc \in 0..NumDocs(event)
    /\ \A d \in DOMAIN outcome :
         outcome[d] \in {"Received", "Persisted", "NotApplicable", "Failed"}
    /\ response.statusCode \in {0, 200, 500}

-----------------------------------------------------------------------------
(* Reading the call log of the current document *)

\* The last document handed to process_legal_document has been dealt with.
DocDone == doc > 0 /\ pc \in {"for_s3_record", "for_record", "returned"}

Fns == [i \in 1..Len(calls) |-> calls[i].fn]
Invoked(fn) == \E i \in 1..Len(calls) : calls[i].fn = fn
Count(fn) == Cardinality({i \in 1..Len(calls) : calls[i].fn = fn})
IsPrefix(s, t) == Len(s) <= Len(t) /\ \A i \in 1..Len(s) : s[i] = t[i]
NoCallRaised == \A i \in 1..Len(calls) : ~IsRaised(calls[i].resp)

\* The document-type values that equal 'legal registration' up to case.
LegalTags == {"legal registration", "Legal Registration", "LEGAL REGISTRATION"}
TagMatches(md) == "document_type" \in DOMAIN md /\ md.document_type \in LegalTags

\* The body of an answer (the envelope's, or the bare dict).
Answer(c) == IF "body" \in DOMAIN c.resp THEN JsonLoads(c.resp.body) ELSE c.resp
Answered(c) == ~IsRaised(c.resp) /\ Answer(c) # NotADict
ReportsCode(c) ==
    /\ "hasQR" \in DOMAIN Answer(c) /\ Answer(c).hasQR
    /\ "decodedText" \in DOMAIN Answer(c) /\ Answer(c).decodedText # ""
HasText(c) == "text" \in DOMAIN Answer(c) /\ Answer(c).text # ""

DetectorReportedNoCode ==
    \E i \in 1..Len(calls) :
        calls[i].fn = QR_DETECTOR_FN /\ Answered(calls[i]) /\ ~ReportsCode(calls[i])
DetectorReportedCode ==
    \E i \in 1..Len(calls) :
        calls[i].fn = QR_DETECTOR_FN /\ Answered(calls[i]) /\ ReportsCode(calls[i])
OcrReturnedText ==
    \E i \in 1..Len(calls) :
        calls[i].fn = VIETOCR_FN /\ Answered(calls[i]) /\ HasText(calls[i])
OcrReturnedNoText ==
    \E i \in 1..Len(calls) :
        calls[i].fn = VIETOCR_FN /\ Answered(calls[i]) /\ ~HasText(calls[i])

\* A synchronous step that failed: the call raised, or its answer could not be
\* read as an object where the router reads it.
SyncFns == {HEAD_OBJECT, QR_DETECTOR_FN, QR_DECODER_FN, VIETOCR_FN, BEDROCK_QA_FN}
StepFailed(c) ==
    /\ c.fn \in SyncFns
    /\ \/ IsRaised(c.resp)
       \/ c.fn \in {QR_DETECTOR_FN, VIETOCR_FN} /\ Answer(c) = NotADict

-----------------------------------------------------------------------------
(* Claims *)

\* C1 (as claimed): when lambda_handler has returned, every document that
\* follows a Failed document of the same batch has been processed, i.e. has
\* reached Persisted, NotApplicable or Failed.
C1_FailureDoesNotStopBatch ==
    pc = "returned" =>
        \A i, j \in DOMAIN outcome :
            (i < j /\ outcome[i] = "Failed") =>
                outcome[j] \in {"Persisted", "NotApplicable", "Failed"}

\* C2 (as claimed): whatever happened to the documents of the batch,
\* lambda_handler returns statusCode 200, 'Processing completed'.
C2_AlwaysReportsCompletion ==
    pc = "returned" =>
        response = [statusCode |-> 200, body |-> "Processing completed"]

\* C3: a document whose document-type is not 'legal registration' up to case
\* (or is missing) has no call but the metadata lookup: neither the code-decode
\* collaborator nor any other collaborator of the legal pipeline is invoked.
C3_NonLegalInvokesNoCollaborator ==
    (Len(calls) >= 1 /\ ~IsRaised(calls[1].resp) /\ ~TagMatches(calls[1].resp)) =>
        /\ Len(calls) = 1
        /\ calls[1].fn = HEAD_OBJECT

C3_Witness ==
    /\ DocDone
    /\ Len(calls) = 1
    /\ calls[1].resp = [document_type |-> "Legal Registration Form"]
    /\ outcome[doc] = "NotApplicable"

\* C4: for a legal-registration document for which code-decode reports no
\* code and text-extraction returns non-empty text, the calls made are, at
\* every moment, a prefix of metadata, code-decode, text-extraction,
\* question-answering, persistence; question-answering is synchronous and gets
\* the extracted text, persistence is an Event invocation and gets the
\* question-answering output; and when no call has raised, the document is
\* done only with all five calls made, and is then Persisted.
C4_SlowPathOrder ==
    (DetectorReportedNoCode /\ OcrReturnedText) =>
        /\ IsPrefix(Fns, <<HEAD_OBJECT, QR_DETECTOR_FN, VIETOCR_FN, BEDROCK_QA_FN,
                           RESULT_SAVER_FN>>)
        /\ calls[3].type = "RequestResponse"
        /\ Len(calls) >= 4 =>
             /\ calls[4].type = "RequestResponse"
             /\ calls[4].text = Answer(calls[3]).text
        /\ Len(calls) >= 5 =>
             /\ calls[5].type = "Event"
             /\ calls[5].result = Answer(calls[4])
             /\ calls[5].key = doc
        /\ (DocDone /\ NoCallRaised) => (Len(calls) = 5 /\ outcome[doc] = "Persisted")
        /\ outcome[doc] = "Persisted" => (DocDone /\ NoCallRaised /\ Len(calls) = 5)

C4_Witness ==
    /\ DocDone /\ NoCallRaised /\ DetectorReportedNoCode /\ OcrReturnedText
    /\ TagMatches(calls[1].resp)
    /\ Len(calls) = 5
    /\ calls[5].result = [answers |-> "QA1"]
    /\ outcome[doc] = "Persisted"

\* C5: when text-extraction answers without text (the text is empty or
\* absent), the document is Failed with the kind ExtractionEmpty, and neither
\* question-answering nor persistence is invoked for it.
C5_EmptyExtractionFails ==
    OcrReturnedNoText =>
        /\ outcome[doc] = "Failed"
        /\ error = NoTextMessage
        /\ pc = "returned"
        /\ ~Invoked(BEDROCK_QA_FN)
        /\ ~Invoked(RESULT_SAVER_FN)

C5_Witness ==
    /\ Len(calls) = 3
    /\ calls[3].fn = VIETOCR_FN
    /\ calls[3].resp = Envelope(200, "{\"text\": \"\"}")
    /\ outcome[doc] = "Failed"

\* C6: for a legal-registration document for which code-decode reports a
\* decoded payload, the calls made are, at every moment, a prefix of metadata,
\* code-decode, decode-interpretation, persistence; decode-interpretation is
\* synchronous and gets the decoded payload, persistence is an Event invocation
\* (its answer is not read) and gets the interpretation result; and when no
\* call has raised, the document is done only with all four calls made, and is
\* then Persisted.
C6_FastPathOrder ==
    DetectorReportedCode =>
        /\ IsPrefix(Fns, <<HEAD_OBJECT, QR_DETECTOR_FN, QR_DECODER_FN, RESULT_SAVER_FN>>)
        /\ Len(calls) >= 3 =>
             /\ calls[3].type = "RequestResponse"
             /\ calls[3].text = Answer(calls[2]).decodedText
        /\ Len(calls) >= 4 =>
             /\ calls[4].type = "Event"
             /\ calls[4].result = Answer(calls[3])
             /\ calls[4].key = doc
        /\ (DocDone /\ NoCallRaised) => (Len(calls) = 4 /\ outcome[doc] = "Persisted")
        /\ outcome[doc] = "Persisted" => (DocDone /\ NoCallRaised /\ Len(calls) = 4)

C6_Witness ==
    /\ DocDone /\ NoCallRaised /\ DetectorReportedCode
    /\ TagMatches(calls[1].resp)
    /\ Len(calls) = 4
    /\ calls[3].text = "QR1"
    /\ calls[4].result = [fields |-> "DEC1"]
    /\ outcome[doc] = "Persisted"

\* C7: within one document the decode-interpretation collaborator and the
\* slow-path collaborators (text-extraction, question-answering) are never both
\* invoked; a document that has been dealt with is in one of Persisted,
\* NotApplicable, Failed, and a document still in progress is in none of them.
C7_OnePathPerDocument ==
    /\ ~(Invoked(QR_DECODER_FN) /\ (Invoked(VIETOCR_FN) \/ Invoked(BEDROCK_QA_FN)))
    /\ DocDone => outcome[doc] \in {"Persisted", "NotApplicable", "Failed"}
    /\ (doc > 0 /\ ~DocDone /\ pc # "existing_bedrock") => outcome[doc] = "Received"

C7_Witness ==
    /\ DocDone
    /\ Invoked(QR_DECODER_FN)
    /\ ~Invoked(VIETOCR_FN)
    /\ outcome[doc] = "Persisted"
    /\ doc >= 2
    /\ outcome[doc - 1] = "Persisted"

\* C8: a document that ends Persisted, on either path, has exactly one
\* invocation of the result-persistence collaborator.
C8_PersistedExactlyOnce ==
    (DocDone /\ outcome[doc] = "Persisted") => Count(RESULT_SAVER_FN) = 1

C8_Witness ==
    /\ DocDone
    /\ outcome[doc] = "Persisted"
    /\ Invoked(VIETOCR_FN)
    /\ Count(RESULT_SAVER_FN) = 1

C10_NoRetry ==
    /\ \A fn \in SyncFns : Count(fn) <= 1
    /\ \A i \in 1..Len(calls) :
         IsRaised(calls[i].resp) =>
             /\ i = Len(calls)
             /\ outcome[doc] = "Failed"
             /\ error = ClientErrorMessage
             /\ pc = "returned"

C10_Witness ==
    /\ Len(calls) = 3
    /\ calls[3].fn = QR_DECODER_FN
    /\ IsRaised(calls[3].resp)
    /\ outcome[doc] = "Failed"
    /\ pc = "returned"

\* C11: a document whose tag does not match 'legal registration' is handed to
\* process_with_existing_bedrock exactly once and ends NotApplicable, which
\* does not end the batch with an error; a document whose tag matches is never
\* handed to it; no document is handed to it more than once.
C11_GenericHandoff ==
    /\ \A d \in DOMAIN handed : handed[d] <= 1
    /\ (Len(calls) >= 1 /\ ~IsRaised(calls[1].resp) /\ TagMatches(calls[1].resp)) =>
           (handed[doc] = 0 /\ pc # "existing_bedrock")
    /\ (DocDone /\ Len(calls) >= 1 /\ ~IsRaised(calls[1].resp)
           /\ ~TagMatches(calls[1].resp)) =>
           /\ handed[doc] = 1
           /\ outcome[doc] = "NotApplicable"
           /\ error = ""
           /\ response.statusCode \in {0, 200}

C11_Witness ==
    /\ pc = "returned"
    /\ doc = 2
    /\ handed = <<1, 0>>
    /\ outcome = <<"NotApplicable", "Persisted">>
    /\ response.statusCode = 200

-----------------------------------------------------------------------------
(* The model singletons of the OCR server under concurrent requests         *)
(* (src/backend/vietocr-server.py, lines 14-57 and 218-219).  The server is *)
(* started with app.run(..., debug=False), which serves every request in a  *)
(* thread of its own; init_detector and init_predictor take no lock, and a  *)
(* constructor runs for seconds, so another thread can run between the      *)
(* test of the global and its assignment.                                   *)

\* The state of the trigger-upload Lambda when it is not running.
RouterIdle ==
    /\ event = <<>>
    /\ ri = 0
    /\ si = 0
    /\ doc = 0
    /\ pc = "for_record"
    /\ doc_type = ""
    /\ qr_result = NoneDict
    /\ decoded_result = NoneDict
    /\ ocr_result = NoneDict
    /\ qa_result = NoneDict
    /\ calls = <<>>
    /\ outcome = <<>>
    /\ error = ""
    /\ response = [statusCode |-> 0, body |-> ""]
    /\ handed = <<>>

\* What the singleton threads leave alone.
nonSingleton == <<routerVars, geomVars, ocrVars, seqVars>>

\* Lines 26 and 48: if detector is None / if predictor is None.
DetectorIsNoneUntested == TRUE
DetectorIsNone == detector = 0
PredictorIsNone == predictor = 0

\* A request reaches line 218.
RequestArrives(t) ==
    /\ tpc[t] = "idle"
    /\ tpc' = [tpc EXCEPT ![t] = "init_detector"]
    /\ UNCHANGED <<detector, predictor, constructed, tdet, tpred, nonSingleton>>

\* init_detector, line 26 and, the global being set, line 44.
InitDetectorCheck(t) ==
    /\ tpc[t] = "init_detector"
    /\ IF DetectorIsNone
       THEN /\ tpc' = [tpc EXCEPT ![t] = "construct_detector"]
            /\ UNCHANGED tdet
       ELSE /\ tpc' = [tpc EXCEPT ![t] = "init_predictor"]
            /\ tdet' = [tdet EXCEPT ![t] = detector]
    /\ UNCHANGED <<detector, predictor, constructed, tpred, nonSingleton>>

\* init_detector, lines 27-44: PaddleOCR(...) is built and assigned.
ConstructDetector(t) ==
    /\ tpc[t] = "construct_detector"
    /\ constructed' = [constructed EXCEPT !.detector = @ + 1]
    /\ detector' = constructed.detector + 1
    /\ tdet' = [tdet EXCEPT ![t] = constructed.detector + 1]
    /\ tpc' = [tpc EXCEPT ![t] = "init_predictor"]
    /\ UNCHANGED <<predictor, tpred, nonSingleton>>

\* init_predictor, line 48 and, the global being set, line 57.
InitPredictorCheck(t) ==
    /\ tpc[t] = "init_predictor"
    /\ IF PredictorIsNone
       THEN /\ tpc' = [tpc EXCEPT ![t] = "construct_predictor"]
            /\ UNCHANGED tpred
       ELSE /\ tpc' = [tpc EXCEPT ![t] = "models_ready"]
            /\ tpred' = [tpred EXCEPT ![t] = predictor]
    /\ UNCHANGED <<detector, predictor, constructed, tdet, nonSingleton>>

\* init_predictor, lines 49-57: Predictor(cfg) is built and assigned.
ConstructPredictor(t) ==
    /\ tpc[t] = "construct_predictor"
    /\ constructed' = [constructed EXCEPT !.predictor = @ + 1]
    /\ predictor' = constructed.predictor + 1
    /\ tpred' = [tpred EXCEPT ![t] = constructed.predictor + 1]
    /\ tpc' = [tpc EXCEPT ![t] = "models_ready"]
    /\ UNCHANGED <<detector, tdet, nonSingleton>>

SingletonInit == RouterIdle /\ SingletonIdle /\ GeomIdle /\ OcrIdle /\ SeqIdle

SingletonNext ==
    \/ \E t \in Threads : RequestArrives(t)
    \/ \E t \in Threads : InitDetectorCheck(t)
    \/ \E t \in Threads : ConstructDetector(t)
    \/ \E t \in Threads : InitPredictorCheck(t)
    \/ \E t \in Threads : ConstructPredictor(t)

SpecSingleton == SingletonInit /\ [][SingletonNext]_vars

\* C12 (as claimed): however the first uses of a model singleton interleave,
\* its constructor runs at most once.
C12_ConstructedAtMostOnce ==
    /\ constructed.detector <= 1
    /\ constructed.predictor <= 1

-----------------------------------------------------------------------------
(* Region mapping and crop upscaling in ocr()                               *)
(* (src/backend/vietocr-server.py, lines 301-363).  An image is its size;   *)
(* a point of a polygon is the list of its coordinates and whether float()  *)
(* accepts them.                                                            *)

\* Line 342: pad = 5.
Pad == 5
\* Line 359: if crop.height < 48 (and new_height = 48, line 362).
MinCropHeight == 48

Size(w, h) == [width |-> w, height |-> h]
Pt(x, y) == [c |-> <<x, y>>, num |-> TRUE]

\* min(0, a) and max(W, b) of lines 343-346, min(xs) and max(xs) of a list.
Min2(a, b) == IF a <= b THEN a ELSE b
Max2(a, b) == IF a >= b THEN a ELSE b
ListMin(xs) == CHOOSE m \in {xs[i] : i \in DOMAIN xs} : \A i \in DOMAIN xs : m <= xs[i]
ListMax(xs) == CHOOSE m \in {xs[i] : i \in DOMAIN xs} : \A i \in DOMAIN xs : m >= xs[i]

\* int(float(c) * (num / den)) as Python computes it: num / den is rounded to
\* a double and so is its product by c, and int() truncates towards zero.
\* The double product is never above c * num / den; where c * num / den is a
\* whole number it can lie just below it, and int() then gives one less.
\* FallsShort lists the triples <<c, num, den>>, among the values this model
\* draws, for which it does (e.g. 800 * (1443 / 2400) = 480.99999999999994).
FallsShort ==
    {<<800, 1443, 2400>>, <<715, 516, 858>>, <<55, 48, 11>>, <<1124, 2400, 1124>>}

IntTimes(c, num, den) ==
    LET a == IF c < 0 THEN -c ELSE c
        q == (a * num) \div den
        t == IF <<a, num, den>> \in FallsShort THEN q - 1 ELSE q
    IN  IF c < 0 THEN -t ELSE t

\* Lines 327-340: the polygon has at least 4 points, and every point has two
\* coordinates that float() accepts (otherwise IndexError, TypeError or
\* ValueError is caught and the polygon is skipped).
PolyHasFormat(pts) == Len(pts) >= 4
PolyParses(pts) == \A i \in DOMAIN pts : Len(pts[i].c) >= 2 /\ pts[i].num

\* Lines 303-304, 331-332 and 342-346, without the clamp to the view.
MapRegionUnclamped(pts, v) ==
    LET xs == [i \in DOMAIN pts |-> IntTimes(pts[i].c[1], v.rec_W, v.det_W)]
        ys == [i \in DOMAIN pts |-> IntTimes(pts[i].c[2], v.rec_H, v.det_H)]
    IN  [x1 |-> ListMin(xs) - Pad, y1 |-> ListMin(ys) - Pad,
         x2 |-> ListMax(xs) + Pad, y2 |-> ListMax(ys) + Pad]
\* Lines 303-304, 331-332 and 342-346.
MapRegion(pts, v) ==
    LET xs == [i \in DOMAIN pts |-> IntTimes(pts[i].c[1], v.rec_W, v.det_W)]
        ys == [i \in DOMAIN pts |-> IntTimes(pts[i].c[2], v.rec_H, v.det_H)]
    IN  [x1 |-> Max2(0, ListMin(xs) - Pad),
         y1 |-> Max2(0, ListMin(ys) - Pad),
         x2 |-> Min2(v.rec_W, ListMax(xs) + Pad),
         y2 |-> Min2(v.rec_H, ListMax(ys) + Pad)]

\* Line 353: if x2 > x1 and y2 > y1.
RegionUsableAlways(r) == TRUE
RegionUsable(r) == r.x2 > r.x1 /\ r.y2 > r.y1

\* Line 354: the size of processed_img.crop((x1, y1, x2, y2)).
CropSize(r) == Size(r.x2 - r.x1, r.y2 - r.y1)

\* Lines 359-363 with round() in the place of int().
UpscaledRounded(c) ==
    IF c.height < MinCropHeight
    THEN Size((2 * c.width * MinCropHeight + c.height) \div (2 * c.height), MinCropHeight)
    ELSE c
\* Lines 359-363: scale = 48.0 / crop.height, new_width = int(crop.width *
\* scale), new_height = 48.
Upscaled(c) ==
    IF c.height < MinCropHeight
    THEN Size(IntTimes(c.width, MinCropHeight, c.height), MinCropHeight)
    ELSE c

\* The view sizes mapped between: the 1000x1000 -> 2000x2000 pair of the
\* worked example, and the pairs lines 203-209 build for sources of
\* 1443x516, 3000x2000 and 4500x3000.
Views(dw, dh, rw, rh) == [det_W |-> dw, det_H |-> dh, rec_W |-> rw, rec_H |-> rh]
GeomViews ==
    {Views(1000, 1000, 2000, 2000), Views(2400, 858, 1443, 516),
     Views(3000, 2000, 3000, 2000), Views(4500, 3000, 2400, 1600)}

\* Coordinates of the polygons mapped: inside the views, left of them
\* (negative) and right of or below them.
GeomXs == {-20, 10, 50, 55, 800, 3000}
GeomYs == {10, 11, 36, 50, 715}
GeomPolygons ==
    { <<Pt(xa, ya), Pt(xb, ya), Pt(xb, yb), Pt(xc, yb)>> :
        xa \in GeomXs, xb \in GeomXs, xc \in GeomXs, ya \in GeomYs, yb \in GeomYs }

\* What the region loop leaves alone.
nonGeom == <<routerVars, singVars, ocrVars, seqVars>>

\* Lines 331-346: the polygon is scaled, padded and clamped.
MapPolygon ==
    /\ gpc = "start"
    /\ PolyHasFormat(poly)
    /\ PolyParses(poly)
    /\ region' = MapRegion(poly, views)
    /\ gpc' = "mapped"
    /\ UNCHANGED <<views, poly, crop, nonGeom>>

\* Lines 353-354: a usable region is cropped from the recognition view.
CropRegion ==
    /\ gpc = "mapped"
    /\ RegionUsable(region)
    /\ crop' = CropSize(region)
    /\ gpc' = "cropped"
    /\ UNCHANGED <<views, poly, region, nonGeom>>

\* Lines 384-387: a region that is not usable is skipped.
SkipRegion ==
    /\ gpc = "mapped"
    /\ ~RegionUsable(region)
    /\ gpc' = "skipped"
    /\ UNCHANGED <<views, poly, region, crop, nonGeom>>

\* Lines 359-371: a low crop is upscaled, and the crop goes to rec.predict.
UpscaleCrop ==
    /\ gpc = "cropped"
    /\ crop' = Upscaled(crop)
    /\ gpc' = "predicted"
    /\ UNCHANGED <<views, poly, region, nonGeom>>

GeomInit ==
    /\ RouterIdle
    /\ SingletonIdle
    /\ OcrIdle
    /\ SeqIdle
    /\ gpc = "start"
    /\ views \in GeomViews
    /\ poly \in GeomPolygons
    /\ region = NoRegion
    /\ crop = NoCrop

GeomNext ==
    \/ MapPolygon
    \/ CropRegion
    \/ SkipRegion
    \/ UpscaleCrop

SpecGeom == GeomInit /\ [][GeomNext]_vars

\* c * num / den in exact arithmetic, truncated towards zero.
TruncQuot(c, num, den) ==
    IF c < 0 THEN -(((-c) * num) \div den) ELSE (c * num) \div den
\* The same for the product of doubles: where it falls short of a whole
\* quotient, the truncation is one nearer to zero.
DoubleTrunc(c, num, den) ==
    LET a == IF c < 0 THEN -c ELSE c
        q == TruncQuot(a, num, den)
        t == IF <<a, num, den>> \in FallsShort /\ (a * num) % den = 0 THEN q - 1 ELSE q
    IN  IF c < 0 THEN -t ELSE t
SetMin(S) == CHOOSE m \in S : \A n \in S : m <= n
SetMax(S) == CHOOSE m \in S : \A n \in S : m >= n
PolyXs == {poly[i].c[1] : i \in DOMAIN poly}
PolyYs == {poly[i].c[2] : i \in DOMAIN poly}
Mapped == gpc \in {"mapped", "skipped", "cropped", "predicted"}
ExampleViews == Views(1000, 1000, 2000, 2000)
ExamplePolygon == <<Pt(10, 10), Pt(50, 10), Pt(50, 50), Pt(10, 50)>>

\* C16 (as claimed): the mapped region is the box of the exactly computed
\* trunc(x * recW / detW), trunc(y * recH / detH), padded by 5 and clamped.
C16_ExactMappedRegion ==
    Mapped =>
        /\ region.x1 = Max2(0, SetMin({TruncQuot(x, views.rec_W, views.det_W) : x \in PolyXs}) - 5)
        /\ region.y1 = Max2(0, SetMin({TruncQuot(y, views.rec_H, views.det_H) : y \in PolyYs}) - 5)
        /\ region.x2 = Min2(views.rec_W,
                            SetMax({TruncQuot(x, views.rec_W, views.det_W) : x \in PolyXs}) + 5)
        /\ region.y2 = Min2(views.rec_H,
                            SetMax({TruncQuot(y, views.rec_H, views.det_H) : y \in PolyYs}) + 5)

\* C16 (amended): the mapped region is the box of the truncated double
\* products x * (recW / detW), y * (recH / detH), padded by 5 and clamped to
\* the recognition view; a truncated double product is the exact truncated
\* quotient or one nearer to zero; and the box (10,10)-(50,50) maps from a
\* 1000x1000 into a 2000x2000 view as (15,15)-(105,105).
C16_MappedRegion ==
    Mapped =>
        /\ region.x1 = Max2(0, SetMin({DoubleTrunc(x, views.rec_W, views.det_W) : x \in PolyXs}) - 5)
        /\ region.y1 = Max2(0, SetMin({DoubleTrunc(y, views.rec_H, views.det_H) : y \in PolyYs}) - 5)
        /\ region.x2 = Min2(views.rec_W,
                            SetMax({DoubleTrunc(x, views.rec_W, views.det_W) : x \in PolyXs}) + 5)
        /\ region.y2 = Min2(views.rec_H,
                            SetMax({DoubleTrunc(y, views.rec_H, views.det_H) : y \in PolyYs}) + 5)
        /\ \A x \in PolyXs :
              LET d == DoubleTrunc(x, views.rec_W, views.det_W)
                  q == TruncQuot(x, views.rec_W, views.det_W)
              IN  d \in {q, IF x < 0 THEN q + 1 ELSE q - 1}
        /\ (views = ExampleViews /\ poly = ExamplePolygon) =>
              region = [x1 |-> 15, y1 |-> 15, x2 |-> 105, y2 |-> 105]

C16_Witness ==
    /\ gpc = "mapped"
    /\ views = ExampleViews
    /\ poly = ExamplePolygon
    /\ region = [x1 |-> 15, y1 |-> 15, x2 |-> 105, y2 |-> 105]

\* C18 (as claimed): a crop of width w and height h < 48 goes to the
\* recognizer 48 high and round(w * 48 / h) wide; a crop with h >= 48 goes
\* to it unchanged.
C18_UpscaledWidthRounded ==
    gpc = "predicted" =>
        LET w == region.x2 - region.x1
            h == region.y2 - region.y1
        IN  IF h < 48
            THEN /\ crop.height = 48
                 /\ 2 * crop.width * h - 2 * w * 48 <= h
                 /\ 2 * w * 48 - 2 * crop.width * h <= h
            ELSE crop = Size(w, h)

\* C18 (amended): a crop of width w and height h < 48 goes to the recognizer
\* 48 high and int(w * (48.0 / h)) wide, which is w * 48 / h truncated (or
\* one less where the double product falls short of a whole quotient), so
\* never wider than proportional and less than a pixel narrower (exactly a
\* pixel where it falls short); a crop with h >= 48 goes to it unchanged.
C18_UpscaledWidthTruncated ==
    gpc = "predicted" =>
        LET w == region.x2 - region.x1
            h == region.y2 - region.y1
        IN  IF h < 48
            THEN /\ crop.height = 48
                 /\ crop.width = DoubleTrunc(w, 48, h)
                 /\ crop.width * h <= w * 48
                 /\ w * 48 - crop.width * h <= h
                 /\ (w * 48 - crop.width * h = h) <=> (<<w, 48, h>> \in FallsShort)
            ELSE crop = Size(w, h)

C18_Witness ==
    /\ gpc = "predicted"
    /\ CropSize(region) = Size(50, 36)
    /\ crop = Size(66, 48)

-----------------------------------------------------------------------------
(* preprocess_image (src/backend/vietocr-server.py, lines 59-126) *)

\* Lines 75-81 (detection mode) and 87-93 (recognition mode).
DetectionHuge == 5000
DetectionHugeTarget == 3200
DetectionSmall == 2000
DetectionSmallTarget == 2400
RecognitionHuge == 4000
RecognitionHugeTarget == 2400
RecognitionSmall == 1200
RecognitionSmallTarget == 1600

\* max(img.size), line 71.
MaxSide(sz) == Max2(sz.width, sz.height)

\* img.thumbnail((t, t)) of an image larger than t: the longer side becomes
\* t, the other one keeps the aspect ratio, rounded down or up as the Pillow
\* release at hand rounds it, and is at least 1.
ThumbnailSizes(sz, t) ==
    LET other(a, b) == {Max2(1, (a * t) \div b), Max2(1, (a * t + b - 1) \div b)}
    IN  IF sz.width >= sz.height
        THEN {Size(t, h) : h \in other(sz.height, sz.width)}
        ELSE {Size(w, t) : w \in other(sz.width, sz.height)}

\* Lines 81-83 and 93-95: scale = t / max_side, new_size = (int(img.width *
\* scale), int(img.height * scale)).
Resized(sz, t) ==
    Size(IntTimes(sz.width, t, MaxSide(sz)), IntTimes(sz.height, t, MaxSide(sz)))

\* preprocess_image without the upscaling of small images.
PreprocessImageNoUpscale(sz, for_detection) ==
    LET huge == IF for_detection THEN DetectionHuge ELSE RecognitionHuge
        hugeTarget == IF for_detection THEN DetectionHugeTarget ELSE RecognitionHugeTarget
    IN  IF MaxSide(sz) > huge
        THEN {[input |-> t, output |-> t, same |-> ~e, enhanced |-> e] :
                 t \in ThumbnailSizes(sz, hugeTarget), e \in BOOLEAN}
        ELSE {[input |-> sz, output |-> sz, same |-> ~e, enhanced |-> e] : e \in BOOLEAN}
\* preprocess_image returning, when the enhancement raises, the image as it
\* was passed in ("using original") and not the resized one.
PreprocessImageFailureGivesInput(sz, for_detection) ==
    LET huge == IF for_detection THEN DetectionHuge ELSE RecognitionHuge
        hugeTarget == IF for_detection THEN DetectionHugeTarget ELSE RecognitionHugeTarget
        small == IF for_detection THEN DetectionSmall ELSE RecognitionSmall
        smallTarget == IF for_detection THEN DetectionSmallTarget ELSE RecognitionSmallTarget
    IN  IF MaxSide(sz) > huge
        THEN {[input |-> t, output |-> t, same |-> ~e, enhanced |-> e] :
                 t \in ThumbnailSizes(sz, hugeTarget), e \in BOOLEAN}
        ELSE IF MaxSide(sz) < small
        THEN {[input |-> sz, output |-> Resized(sz, smallTarget), same |-> FALSE,
               enhanced |-> TRUE],
              [input |-> sz, output |-> sz, same |-> TRUE, enhanced |-> FALSE]}
        ELSE {[input |-> sz, output |-> sz, same |-> ~e, enhanced |-> e] : e \in BOOLEAN}
\* preprocess_image(img, for_detection): what a call can do.  input is the
\* size of the object passed in once the call is over (thumbnail works in
\* place, resize returns a new image), output the size of what is returned,
\* enhanced tells whether lines 99-123 went through (line 123 returns a new
\* image) or raised (line 126 returns img: the resized image, or, when no
\* resize was done, the object passed in), and same whether what is
\* returned is the object passed in.
PreprocessImage(sz, for_detection) ==
    LET huge == IF for_detection THEN DetectionHuge ELSE RecognitionHuge
        hugeTarget == IF for_detection THEN DetectionHugeTarget ELSE RecognitionHugeTarget
        small == IF for_detection THEN DetectionSmall ELSE RecognitionSmall
        smallTarget == IF for_detection THEN DetectionSmallTarget ELSE RecognitionSmallTarget
    IN  IF MaxSide(sz) > huge
        THEN {[input |-> t, output |-> t, same |-> ~e, enhanced |-> e] :
                 t \in ThumbnailSizes(sz, hugeTarget), e \in BOOLEAN}
        ELSE IF MaxSide(sz) < small
        THEN {[input |-> sz, output |-> Resized(sz, smallTarget), same |-> FALSE,
               enhanced |-> e] : e \in BOOLEAN}
        ELSE {[input |-> sz, output |-> sz, same |-> ~e, enhanced |-> e] : e \in BOOLEAN}

-----------------------------------------------------------------------------
(* Texts: str.strip() and "\n".join() (lines 375-376, 404-405 and 422) *)

Whitespace == {" ", "\t", "\n"}

RECURSIVE LStrip(_)
LStrip(t) == IF t # <<>> /\ Head(t) \in Whitespace THEN LStrip(Tail(t)) ELSE t
RECURSIVE RStrip(_)
RStrip(t) ==
    IF t # <<>> /\ t[Len(t)] \in Whitespace THEN RStrip(SubSeq(t, 1, Len(t) - 1)) ELSE t
\* text.strip()
Strip(t) == RStrip(LStrip(t))

\* "\n".join(ls)
RECURSIVE Join(_)
Join(ls) ==
    IF ls = <<>> THEN <<>>
    ELSE IF Len(ls) = 1 THEN ls[1]
    ELSE ls[1] \o <<"\n">> \o Join(Tail(ls))

\* Lines 375-376 and 404-405 without the strip: a text that is not empty is
\* kept as it is.
AppendLineUnstripped(ls, t) == IF t # <<>> THEN Append(ls, t) ELSE ls
\* Lines 375-376 and 404-405: if text and text.strip():
\* lines.append(text.strip()).
AppendLine(ls, t) == IF t # <<>> /\ Strip(t) # <<>> THEN Append(ls, Strip(t)) ELSE ls

\* Line 422: final_text = "\n".join(lines) if lines else "".
FinalText(ls) == IF ls # <<>> THEN Join(ls) ELSE <<>>

-----------------------------------------------------------------------------
(* What reaches ocr(): requests, detector results, recognizer outputs *)

\* Bound of the model: items on the page the detector returns.
MaxBoxes == 2

\* Source images, by size: small for both modes (one of them upscaled to
\* 2399, the double product falling short of 2400), small for detection only,
\* left alone by both, huge for recognition only, huge for both.
Sources == {Size(1000, 1000), Size(1124, 800), Size(1443, 516), Size(3000, 2000),
            Size(4500, 3000), Size(6000, 4000)}

\* Lines 170-197: no JSON, no dataBase64, bytes that are no image, an image.
Requests ==
    {[kind |-> k, size |-> NoImage] : k \in {"no_json", "no_field", "bad_image"}}
        \cup {[kind |-> "image", size |-> sz] : sz \in Sources}

\* An item of result[0]: its elements (points) and whether they are lists;
\* None and [] have no elements.
Item(pts) == [nested |-> TRUE, pts |-> pts]
BoxItem == Item(<<Pt(10, 10), Pt(50, 10), Pt(50, 50), Pt(10, 50)>>)
OutsideItem == Item(<<Pt(-40, 10), Pt(-20, 10), Pt(-20, 50), Pt(-40, 50)>>)
ThreePointItem == Item(<<Pt(10, 10), Pt(50, 10), Pt(50, 50)>>)
NotANumberItem ==
    Item(<<Pt(10, 10), Pt(50, 10), [c |-> <<50, 50>>, num |-> FALSE], Pt(10, 50)>>)
ShortPointItem ==
    Item(<<Pt(10, 10), Pt(50, 10), [c |-> <<50>>, num |-> TRUE], Pt(10, 50)>>)
FlatItem == [nested |-> FALSE, pts |-> <<Pt(10, 10), Pt(50, 50)>>]
NoneItem == [nested |-> FALSE, pts |-> <<>>]
DetectorItems ==
    {BoxItem, OutsideItem, ThreePointItem, NotANumberItem, ShortPointItem,
     FlatItem, NoneItem}

\* det.ocr(...) raises, returns None or [], or returns a first page.
DetectorResults ==
    {[kind |-> "raised", page |-> <<>>], [kind |-> "nothing", page |-> <<>>]}
        \cup {[kind |-> "page", page |-> pg] :
                 pg \in UNION {[1..n -> DetectorItems] : n \in 0..MaxBoxes}}

\* What rec.predict returns.
RecognizerTexts == {<<>>, <<" ">>, <<"A">>, <<" ", "B", " ">>}

\* Lines 264-266: the item is a non-empty list whose first element is a list
\* of length 2.
Kept(item) == item.pts # <<>> /\ item.nested /\ Len(item.pts[1].c) = 2

\* Lines 239 and 254-270: boxes_pages after the detector call.
BoxesPages(res) ==
    IF res.kind = "page" /\ res.page # <<>>
    THEN [none |-> FALSE, page |-> SelectSeq(res.page, Kept)]
    ELSE NoBoxes

\* Line 299: if boxes_pages and boxes_pages[0].
HasBoxes(bp) == ~bp.none /\ bp.page # <<>>

\* Lines 301-302 and 314.
ViewsOf(d, r) == Views(d.width, d.height, r.width, r.height)

\* Lines 320-353: the polygon reaches processed_img.crop.
Recognizable(pl, v) ==
    /\ pl.pts # <<>>
    /\ PolyHasFormat(pl.pts)
    /\ PolyParses(pl.pts)
    /\ RegionUsable(MapRegion(pl.pts, v))

\* A call of rec.predict: on the whole recognition view or on the crop of a
\* region, the size of what it was given, and what it returned.
Predict(whole, i, r, sz, raised, t) ==
    [whole |-> whole, idx |-> i, region |-> r, size |-> sz, raised |-> raised, text |-> t]

\* Lines 441-446, 172/176/197 and 447-450.
Success(ls) ==
    [status |-> 200, success |-> TRUE, text |-> FinalText(ls), regions_detected |-> Len(ls)]
BadRequestAsServerError(msg) == [status |-> 500, success |-> FALSE, error |-> msg]
BadRequest(msg) == [status |-> 400, error |-> msg]
ServerError(msg) == [status |-> 500, success |-> FALSE, error |-> msg]

-----------------------------------------------------------------------------
(* ocr() (src/backend/vietocr-server.py, lines 167-450), one request *)

\* What ocr() leaves alone.
nonOcr == <<routerVars, geomVars, seqVars>>
threads == <<tpc, tdet, tpred>>

\* Where the loop of line 319 goes after the region at i.
AfterRegion(i) == IF i < Len(boxes_pages.page) THEN "regions" ELSE "combine"

\* Where the loop would go after a polygon it passes over, were it left by
\* break.
AfterSkipBreak(i) == "combine"
\* Lines 324, 340 and 384-391: where the loop goes after a polygon it passes
\* over (continue, or the end of the body).
AfterSkip(i) == AfterRegion(i)

\* Where ocr() goes after the whole-image recognition, were it repeated
\* until it yields text.
AfterFallbackRetry(t) == IF Strip(t) = <<>> THEN "fallback" ELSE "combine"
\* Where ocr() goes after the whole-image recognition of line 400.
AfterFallback(t) == "combine"

\* Lines 170-176: the request carries no JSON or no dataBase64.
ValidateRequest ==
    /\ opc = "request"
    /\ IF request.kind = "no_json"
       THEN /\ ocr_response' = BadRequest("No JSON data provided")
            /\ opc' = "responded"
       ELSE IF request.kind = "no_field"
       THEN /\ ocr_response' = BadRequest("dataBase64 field is required")
            /\ opc' = "responded"
       ELSE /\ opc' = "load"
            /\ UNCHANGED ocr_response
    /\ UNCHANGED <<request, image, detection_img, processed_img, det_result,
                   boxes_pages, idx, lines, predicts, singVars, nonOcr>>

\* Lines 187-197: the bytes are decoded and opened as an image.
LoadImage ==
    /\ opc = "load"
    /\ IF request.kind = "bad_image"
       THEN /\ ocr_response' = BadRequest("Invalid image data")
            /\ opc' = "responded"
            /\ UNCHANGED image
       ELSE /\ image' = request.size
            /\ opc' = "preprocess_detection"
            /\ UNCHANGED ocr_response
    /\ UNCHANGED <<request, detection_img, processed_img, det_result,
                   boxes_pages, idx, lines, predicts, singVars, nonOcr>>

\* Line 203: detection_img = preprocess_image(image, for_detection=True).
PreprocessDetection ==
    /\ opc = "preprocess_detection"
    /\ \E o \in PreprocessImage(image, TRUE) :
          /\ image' = o.input
          /\ detection_img' = [width |-> o.output.width, height |-> o.output.height,
                               same |-> o.same, enhanced |-> o.enhanced]
    /\ opc' = "preprocess_recognition"
    /\ UNCHANGED <<request, processed_img, det_result, boxes_pages, idx, lines,
                   predicts, ocr_response, singVars, nonOcr>>

\* Line 209: processed_img = preprocess_image(image, for_detection=False);
\* a detection_img that is the object image changes with it.
PreprocessRecognition ==
    /\ opc = "preprocess_recognition"
    /\ \E o \in PreprocessImage(image, FALSE) :
          /\ image' = o.input
          /\ processed_img' = [width |-> o.output.width, height |-> o.output.height,
                               same |-> o.same, enhanced |-> o.enhanced]
          /\ detection_img' = IF detection_img.same
                              THEN [width |-> o.input.width, height |-> o.input.height,
                                    same |-> TRUE, enhanced |-> FALSE]
                              ELSE detection_img
    /\ opc' = "init_models"
    /\ UNCHANGED <<request, det_result, boxes_pages, idx, lines, predicts,
                   ocr_response, singVars, nonOcr>>

\* Lines 218-219: det = init_detector(); rec = init_predictor(), each
\* building its model if the global is None.
InitModels ==
    /\ opc = "init_models"
    /\ detector' = IF DetectorIsNone THEN constructed.detector + 1 ELSE detector
    /\ predictor' = IF PredictorIsNone THEN constructed.predictor + 1 ELSE predictor
    /\ constructed' =
          [detector |-> constructed.detector + (IF DetectorIsNone THEN 1 ELSE 0),
           predictor |-> constructed.predictor + (IF PredictorIsNone THEN 1 ELSE 0)]
    /\ opc' = "detect"
    /\ UNCHANGED <<request, image, detection_img, processed_img, det_result,
                   boxes_pages, idx, lines, predicts, ocr_response, threads, nonOcr>>

\* Lines 218-219 and 447-450: a constructor raises (PaddleOCR(...) before
\* anything is built, or Predictor(cfg) after the detector is built).
InitModelsRaises ==
    /\ opc = "init_models"
    /\ \/ /\ DetectorIsNone
          /\ UNCHANGED <<detector, constructed>>
       \/ /\ PredictorIsNone
          /\ detector' = IF DetectorIsNone THEN constructed.detector + 1 ELSE detector
          /\ constructed' =
                [constructed EXCEPT !.detector = @ + (IF DetectorIsNone THEN 1 ELSE 0)]
    /\ ocr_response' = ServerError("model initialisation")
    /\ opc' = "responded"
    /\ UNCHANGED <<request, image, detection_img, processed_img, det_result,
                   boxes_pages, idx, lines, predicts, predictor, threads, nonOcr>>

\* Lines 239-299: the detector is called, its result is filtered into
\* boxes_pages (an exception leaves boxes_pages None), and line 299 chooses
\* between the region loop and the whole-image recognition.
Detect ==
    /\ opc = "detect"
    /\ \E res \in DetectorResults :
          /\ det_result' = res
          /\ boxes_pages' = BoxesPages(res)
          /\ opc' = IF HasBoxes(BoxesPages(res)) THEN "regions" ELSE "fallback"
    /\ idx' = 1
    /\ UNCHANGED <<request, image, detection_img, processed_img, lines, predicts,
                   ocr_response, singVars, nonOcr>>

\* The polygon the loop of line 319 is at, and the views it is mapped between.
CurrentPoly == boxes_pages.page[idx]
CurrentViews == ViewsOf(detection_img, processed_img)

\* Lines 320-340 and 384-391: the polygon is empty, has fewer than 4 points,
\* does not parse, or maps to a region that is not usable; it is logged and
\* the loop goes on.
SkipPolygon ==
    /\ opc = "regions"
    /\ ~Recognizable(CurrentPoly, CurrentViews)
    /\ idx' = idx + 1
    /\ opc' = AfterSkip(idx)
    /\ UNCHANGED <<request, image, detection_img, processed_img, det_result,
                   boxes_pages, lines, predicts, ocr_response, singVars, nonOcr>>

\* Lines 327-383: the polygon is mapped, the region is cropped from the
\* recognition view, a low crop is upscaled, rec.predict reads it, and its
\* text, if any is left by strip(), is appended to lines.
RecognizeRegion ==
    /\ opc = "regions"
    /\ Recognizable(CurrentPoly, CurrentViews)
    /\ \E t \in RecognizerTexts :
          /\ predicts' = Append(predicts,
                Predict(FALSE, idx, MapRegion(CurrentPoly.pts, CurrentViews),
                        Upscaled(CropSize(MapRegion(CurrentPoly.pts, CurrentViews))),
                        FALSE, t))
          /\ lines' = AppendLine(lines, t)
    /\ idx' = idx + 1
    /\ opc' = AfterRegion(idx)
    /\ UNCHANGED <<request, image, detection_img, processed_img, det_result,
                   boxes_pages, ocr_response, singVars, nonOcr>>

\* Lines 371 and 447-450: rec.predict raises on the crop of a region.
RegionPredictRaises ==
    /\ opc = "regions"
    /\ Recognizable(CurrentPoly, CurrentViews)
    /\ predicts' = Append(predicts,
          Predict(FALSE, idx, MapRegion(CurrentPoly.pts, CurrentViews),
                  Upscaled(CropSize(MapRegion(CurrentPoly.pts, CurrentViews))),
                  TRUE, <<>>))
    /\ ocr_response' = ServerError("rec.predict")
    /\ opc' = "responded"
    /\ UNCHANGED <<request, image, detection_img, processed_img, det_result,
                   boxes_pages, idx, lines, singVars, nonOcr>>

\* Lines 392-408: t = rec.predict(processed_img), and its text, if any is
\* left by strip(), is appended to lines.
Fallback ==
    /\ opc = "fallback"
    /\ \E t \in RecognizerTexts :
          /\ predicts' = Append(predicts,
                Predict(TRUE, 0, NoRegion, Size(processed_img.width, processed_img.height),
                        FALSE, t))
          /\ lines' = AppendLine(lines, t)
          /\ opc' = AfterFallback(t)
    /\ UNCHANGED <<request, image, detection_img, processed_img, det_result,
                   boxes_pages, idx, ocr_response, singVars, nonOcr>>

\* Lines 400 and 447-450: rec.predict raises on the whole recognition view.
FallbackPredictRaises ==
    /\ opc = "fallback"
    /\ predicts' = Append(predicts,
          Predict(TRUE, 0, NoRegion, Size(processed_img.width, processed_img.height),
                  TRUE, <<>>))
    /\ ocr_response' = ServerError("rec.predict")
    /\ opc' = "responded"
    /\ UNCHANGED <<request, image, detection_img, processed_img, det_result,
                   boxes_pages, idx, lines, singVars, nonOcr>>

\* Lines 422-446: the lines are joined and the success response is returned.
Respond ==
    /\ opc = "combine"
    /\ ocr_response' = Success(lines)
    /\ opc' = "responded"
    /\ UNCHANGED <<request, image, detection_img, processed_img, det_result,
                   boxes_pages, idx, lines, predicts, singVars, nonOcr>>

OcrInit ==
    /\ RouterIdle
    /\ SingletonIdle
    /\ GeomIdle
    /\ SeqIdle
    /\ opc = "request"
    /\ request \in Requests
    /\ image = NoImage
    /\ detection_img = NoView
    /\ processed_img = NoView
    /\ det_result = NoResult
    /\ boxes_pages = NoBoxes
    /\ idx = 0
    /\ lines = <<>>
    /\ predicts = <<>>
    /\ ocr_response = NoResponse

OcrNext ==
    \/ ValidateRequest
    \/ LoadImage
    \/ PreprocessDetection
    \/ PreprocessRecognition
    \/ InitModels
    \/ InitModelsRaises
    \/ Detect
    \/ SkipPolygon
    \/ RecognizeRegion
    \/ RegionPredictRaises
    \/ Fallback
    \/ FallbackPredictRaises
    \/ Respond

SpecOcr == OcrInit /\ [][OcrNext]_vars

-----------------------------------------------------------------------------
(* Claims about one request to /ocr *)

WholeCalls == {i \in DOMAIN predicts : predicts[i].whole}
RegionCalls == {i \in DOMAIN predicts : ~predicts[i].whole}
NoPredictRaised == \A i \in DOMAIN predicts : ~predicts[i].raised
Detected == det_result.kind # "not_called"
Answered200 == ocr_response.status = 200

\* A polygon in the format the region loop expects: a list of at least 4
\* points, each with two numeric coordinates.
UsablePolygon(item) ==
    /\ item.nested
    /\ Len(item.pts) >= 4
    /\ \A i \in DOMAIN item.pts : Len(item.pts[i].c) = 2 /\ item.pts[i].num

\* C13 (as claimed): when the request is answered and no region yielded
\* non-empty text, the recognizer was run on the whole recognition view and
\* its trimmed result is the document text.
C13_FallbackWhenNoRegionText ==
    (Answered200 /\ \A i \in RegionCalls : Strip(predicts[i].text) = <<>>) =>
        \E i \in WholeCalls :
            /\ predicts[i].size = Size(processed_img.width, processed_img.height)
            /\ ocr_response.text = Strip(predicts[i].text)

\* C14: within one request the whole-image recognition is executed at most
\* once, whatever the detector returned and whatever the recognition returns.
C14_FallbackAtMostOnce ==
    /\ Cardinality(WholeCalls) <= 1
    /\ \A i \in WholeCalls : opc \in {"combine", "responded"}

C14_Witness ==
    /\ opc = "responded"
    /\ Answered200
    /\ ocr_response.text = <<>>
    /\ Len(predicts) = 1
    /\ predicts[1].whole
    /\ predicts[1].text = <<" ">>

\* C15 (as claimed): when the detector call raised or returned nothing, an
\* empty page or only items that are no usable polygons, and the recognizer
\* did not raise, the request is answered with success after a whole-image
\* recognition.
C15_DetectionFailureRecovered ==
    (/\ opc = "responded"
     /\ Detected
     /\ NoPredictRaised
     /\ \A i \in DOMAIN det_result.page : ~UsablePolygon(det_result.page[i])) =>
        /\ Answered200
        /\ WholeCalls # {}

\* C17: every region cropped and given to the recognizer lies in the
\* recognition view with x1 < x2 and y1 < y2; a polygon whose region has
\* x2 <= x1 or y2 <= y1 is passed over, never recognized, and the request
\* goes on to a success response.
C17_OnlyUsableRegionsRecognized ==
    /\ \A i \in RegionCalls :
          LET r == predicts[i].region
          IN  /\ 0 <= r.x1 /\ r.x1 < r.x2 /\ r.x2 <= processed_img.width
              /\ 0 <= r.y1 /\ r.y1 < r.y2 /\ r.y2 <= processed_img.height
              /\ predicts[i].size.width >= 1
              /\ predicts[i].size.height >= 1
    /\ \A j \in DOMAIN boxes_pages.page :
          (/\ j < idx
           /\ UsablePolygon(boxes_pages.page[j])
           /\ LET r == MapRegion(boxes_pages.page[j].pts, CurrentViews)
              IN  r.x2 <= r.x1 \/ r.y2 <= r.y1) =>
              /\ \A i \in RegionCalls : predicts[i].idx # j
              /\ (opc = "responded" /\ NoPredictRaised) => Answered200

C17_Witness ==
    /\ opc = "responded"
    /\ Answered200
    /\ boxes_pages.page = <<OutsideItem, BoxItem>>
    /\ Len(predicts) = 1
    /\ predicts[1].idx = 2
    /\ ocr_response.text = <<"A">>

\* The trimmed recognizer outputs that are not empty, in the order of the
\* calls.
RECURSIVE TrimmedTexts(_)
TrimmedTexts(ps) ==
    IF ps = <<>> THEN <<>>
    ELSE LET rest == TrimmedTexts(SubSeq(ps, 1, Len(ps) - 1))
             t == Strip(ps[Len(ps)].text)
         IN  IF t = <<>> THEN rest ELSE Append(rest, t)
\* The texts of ls, a newline before each but the first.
RECURSIVE NewlineJoined(_)
NewlineJoined(ls) ==
    IF ls = <<>> THEN <<>>
    ELSE IF Len(ls) = 1 THEN ls[1]
    ELSE NewlineJoined(SubSeq(ls, 1, Len(ls) - 1)) \o <<"\n">> \o ls[Len(ls)]

\* C19: the lines are the trimmed recognizer outputs that are not empty,
\* region calls in detection order; none is empty; and the text returned is
\* their newline-join, the empty text when there is none.
C19_TextIsJoinOfTrimmedLines ==
    /\ lines = TrimmedTexts(predicts)
    /\ \A i \in DOMAIN lines : lines[i] # <<>> /\ lines[i] = Strip(lines[i])
    /\ \A i \in RegionCalls : \A j \in RegionCalls :
          i < j => predicts[i].idx < predicts[j].idx
    /\ Answered200 =>
          /\ ocr_response.text = NewlineJoined(lines)
          /\ lines = <<>> => ocr_response.text = <<>>

C19_Witness ==
    /\ opc = "responded"
    /\ Answered200
    /\ Len(predicts) = 2
    /\ predicts[1].text = <<" ", "B", " ">>
    /\ predicts[2].text = <<"A">>
    /\ ocr_response.text = <<"B", "\n", "A">>

\* C20 (as claimed): the image loaded from the request keeps its width and
\* height through both calls of preprocess_image.
C20_InputNotMutated ==
    image # NoImage => image = request.size

-----------------------------------------------------------------------------
(* The choice of path in process_legal_document *)

\* C27: once the QR detector has answered with an object, the decoder is the
\* next collaborator exactly when the answer carries hasQR true and a
\* non-empty decodedText; after every other answer (hasQR false, hasQR true
\* with an empty decodedText, an error body without hasQR) the next
\* collaborator is VietOCR and the document has not failed at that point.
C27_FastPathOnlyWithCodeAndText ==
    /\ \A i \in 1..Len(calls) :
          (calls[i].fn = QR_DETECTOR_FN /\ Answered(calls[i])) =>
              IF ReportsCode(calls[i])
              THEN /\ Len(calls) > i => calls[i + 1].fn = QR_DECODER_FN
                   /\ Len(calls) = i => pc = "invoke_qr_decoder"
              ELSE /\ Len(calls) > i => calls[i + 1].fn = VIETOCR_FN
                   /\ Len(calls) = i => (pc = "invoke_vietocr" /\ outcome[doc] = "Received")
    /\ Invoked(QR_DECODER_FN) => DetectorReportedCode

C27_Witness ==
    /\ Len(calls) >= 3
    /\ calls[2].fn = QR_DETECTOR_FN
    /\ Answer(calls[2]) = [hasQR |-> TRUE, decodedText |-> ""]
    /\ calls[3].fn = VIETOCR_FN
    /\ outcome[doc] = "Persisted"

-----------------------------------------------------------------------------
(* Claims about preprocess_image as ocr() calls it *)

\* d2 is d * t / m within a pixel: not above it and at most one below.
WithinAPixel(d2, d, t, m) == d2 * m <= d * t /\ d * t - d2 * m <= m
LongSide(sz) == IF sz.width >= sz.height THEN sz.width ELSE sz.height
SameSize(a, b) == a.width = b.width /\ a.height = b.height
DetectionViewBuilt == opc = "preprocess_recognition"
RecognitionViewBuilt == processed_img.width > 0

\* C21 (as claimed): the recognition view follows the recognition-mode table
\* applied to the max side of the source page as it was loaded: at most 2400
\* for a source above 4000, the source scaled by 1600 / maxSide for a source
\* below 1200, the source dimensions otherwise.
C21_RecognitionViewFromSource ==
    RecognitionViewBuilt =>
        LET m == LongSide(request.size)
        IN  /\ m > 4000 => LongSide(processed_img) <= 2400
            /\ m < 1200 =>
                  /\ WithinAPixel(processed_img.width, request.size.width, 1600, m)
                  /\ WithinAPixel(processed_img.height, request.size.height, 1600, m)
            /\ (m >= 1200 /\ m <= 4000) => SameSize(processed_img, request.size)

\* C22: the detection view of a source whose max side is in [2000, 4000]
\* has the source's dimensions; for a max side below 2000 each dimension is
\* d * 2400 / maxSide within a pixel, so the longer side is 2400 or 2399; for
\* a max side above 5000 the longer side is at most 3200.
C22_DetectionModeTable ==
    DetectionViewBuilt =>
        LET m == LongSide(request.size)
        IN  /\ (m >= 2000 /\ m <= 4000) => SameSize(detection_img, request.size)
            /\ m < 2000 =>
                  /\ WithinAPixel(detection_img.width, request.size.width, 2400, m)
                  /\ WithinAPixel(detection_img.height, request.size.height, 2400, m)
                  /\ LongSide(detection_img) \in {2399, 2400}
            /\ m > 5000 => LongSide(detection_img) <= 3200

C22_Witness ==
    /\ DetectionViewBuilt
    /\ request.size = Size(1124, 800)
    /\ detection_img.width = 2399
    /\ detection_img.height = 1708

-----------------------------------------------------------------------------
(* Claims about the failures of one request to /ocr *)

Rejected == request.kind \in {"no_json", "no_field", "bad_image"}
LoopOver == opc \in {"combine", "responded"} /\ NoPredictRaised

C24_MalformedPolygonSkipped ==
    \A j \in DOMAIN boxes_pages.page :
        (j < idx /\ ~UsablePolygon(boxes_pages.page[j])) =>
            /\ \A i \in RegionCalls : predicts[i].idx # j
            /\ \A k \in DOMAIN boxes_pages.page :
                  (/\ k > j
                   /\ k < idx \/ LoopOver
                   /\ UsablePolygon(boxes_pages.page[k])
                   /\ LET r == MapRegion(boxes_pages.page[k].pts, CurrentViews)
                      IN  r.x2 > r.x1 /\ r.y2 > r.y1) =>
                      \E i \in RegionCalls :
                          /\ predicts[i].idx = k
                          /\ predicts[i].region =
                                MapRegion(boxes_pages.page[k].pts, CurrentViews)
            /\ (opc = "responded" /\ NoPredictRaised) => Answered200

C24_Witness ==
    /\ opc = "responded"
    /\ Answered200
    /\ boxes_pages.page = <<NotANumberItem, BoxItem>>
    /\ Len(predicts) = 1
    /\ predicts[1].idx = 2
    /\ ocr_response.text = <<"A">>

-----------------------------------------------------------------------------
(* The model singletons in sequential use: init_detector, init_predictor   *)
(* and /health of src/backend/vietocr-server.py (lines 14-57, 158-165) and *)
(* _get_model of src/lambdas/vietocr-processor/index.py (lines 28-38),     *)
(* each call running from its first line to its return before the next     *)
(* one starts.                                                              *)

\* Bound of the model: calls on record.
MaxUses == 4

\* What the sequential calls leave alone.
nonSeq == <<routerVars, geomVars, ocrVars, threads>>

\* Line 33 of the Lambda: if _model is None.
ModelIsNone == model = 0

\* A call on record: the function, the instance it returned (0 = none),
\* whether it ran the constructor, whether it raised, and for /health the
\* two flags of its answer.
Use(op, instance, built, raised, di, pi) ==
    [op |-> op, instance |-> instance, built |-> built, raised |-> raised,
     detector_initialized |-> di, predictor_initialized |-> pi]

\* init_detector(), lines 24-44.
CallInitDetector ==
    /\ Len(uses) < MaxUses
    /\ IF DetectorIsNone
       THEN /\ detector' = constructed.detector + 1
            /\ constructed' = [constructed EXCEPT !.detector = @ + 1]
            /\ uses' = Append(uses, Use("init_detector", constructed.detector + 1,
                                        TRUE, FALSE, FALSE, FALSE))
       ELSE /\ uses' = Append(uses, Use("init_detector", detector, FALSE, FALSE, FALSE, FALSE))
            /\ UNCHANGED <<detector, constructed>>
    /\ UNCHANGED <<predictor, model, model_constructed, nonSeq>>

\* init_predictor(), lines 46-57.
CallInitPredictor ==
    /\ Len(uses) < MaxUses
    /\ IF PredictorIsNone
       THEN /\ predictor' = constructed.predictor + 1
            /\ constructed' = [constructed EXCEPT !.predictor = @ + 1]
            /\ uses' = Append(uses, Use("init_predictor", constructed.predictor + 1,
                                        TRUE, FALSE, FALSE, FALSE))
       ELSE /\ uses' = Append(uses, Use("init_predictor", predictor, FALSE, FALSE, FALSE, FALSE))
            /\ UNCHANGED <<predictor, constructed>>
    /\ UNCHANGED <<detector, model, model_constructed, nonSeq>>

\* _get_model(), lines 31-38 of the Lambda.
CallGetModel ==
    /\ Len(uses) < MaxUses
    /\ IF ModelIsNone
       THEN /\ model' = model_constructed + 1
            /\ model_constructed' = model_constructed + 1
            /\ uses' = Append(uses, Use("_get_model", model_constructed + 1,
                                        TRUE, FALSE, FALSE, FALSE))
       ELSE /\ uses' = Append(uses, Use("_get_model", model, FALSE, FALSE, FALSE, FALSE))
            /\ UNCHANGED <<model, model_constructed>>
    /\ UNCHANGED <<detector, predictor, constructed, nonSeq>>

\* A constructor raises (PaddleOCR(...), Predictor(cfg) or
\* Predictor(config)): the global it was to set stays None.
ConstructorRaises ==
    /\ Len(uses) < MaxUses
    /\ \E op \in {"init_detector", "init_predictor", "_get_model"} :
          /\ \/ op = "init_detector" /\ DetectorIsNone
             \/ op = "init_predictor" /\ PredictorIsNone
             \/ op = "_get_model" /\ ModelIsNone
          /\ uses' = Append(uses, Use(op, 0, FALSE, TRUE, FALSE, FALSE))
    /\ UNCHANGED <<detector, predictor, constructed, model, model_constructed, nonSeq>>

\* GET /health, lines 158-165.
Health ==
    /\ Len(uses) < MaxUses
    /\ uses' = Append(uses, Use("health", 0, FALSE, FALSE, detector # 0, predictor # 0))
    /\ UNCHANGED <<detector, predictor, constructed, model, model_constructed, nonSeq>>

SeqInit == RouterIdle /\ SingletonIdle /\ GeomIdle /\ OcrIdle /\ SeqIdle

SeqNext ==
    \/ CallInitDetector
    \/ CallInitPredictor
    \/ CallGetModel
    \/ ConstructorRaises
    \/ Health

SpecSequential == SeqInit /\ [][SeqNext]_vars

Probes == {i \in DOMAIN uses : uses[i].op = "health"}
Returns(op) == {i \in DOMAIN uses : uses[i].op = op /\ ~uses[i].raised}
InitFns == {"init_detector", "init_predictor", "_get_model"}

\* C26: in sequential use each constructor runs at most once, in the first
\* call that gets through; every call of init_detector, init_predictor or
\* _get_model that returns, returns the instance built then; and the flags
\* of /health are false before the first init call that returned, true after
\* it, and so never go from true back to false.
C26_SingletonsInSequentialUse ==
    /\ constructed.detector <= 1 /\ constructed.predictor <= 1 /\ model_constructed <= 1
    /\ \A op \in InitFns : \A i \in Returns(op) :
          /\ uses[i].instance = 1
          /\ uses[i].built <=> (\A k \in Returns(op) : k >= i)
    /\ \A i \in Probes :
          /\ uses[i].detector_initialized <=> (\E k \in Returns("init_detector") : k < i)
          /\ uses[i].predictor_initialized <=> (\E k \in Returns("init_predictor") : k < i)
    /\ \A i \in Probes : \A j \in Probes :
          i < j =>
             /\ uses[i].detector_initialized => uses[j].detector_initialized
             /\ uses[i].predictor_initialized => uses[j].predictor_initialized

C26_Witness ==
    /\ Len(uses) = 4
    /\ uses[1].op = "health" /\ ~uses[1].detector_initialized
    /\ uses[2].op = "init_detector" /\ uses[2].built
    /\ uses[3].op = "init_detector" /\ ~uses[3].built /\ uses[3].instance = 1
    /\ uses[4].op = "health" /\ uses[4].detector_initialized
    /\ ~uses[4].predictor_initialized

====
